---- MODULE Spec2Model ----
(***************************************************************************)
(* A model of src/src/App.tsx, the weekly scorecard: the entry sanitizer   *)
(* (toNumericValue, toBooleanValue, parseStoredEntries, loadEntries), the  *)
(* week ordering (sortEntries), the derivation (scoreRules,                *)
(* computeDerivedWeeks) and the handlers of the App component that replace *)
(* the working collection of entries.                                      *)
(*                                                                         *)
(* Representation.                                                         *)
(*  - A JavaScript value is a record [t, v]: t is the kind of the value    *)
(*    and v its payload (the characters of a string, the elements of an    *)
(*    array, the properties of an object).                                 *)
(*  - A number is an integer count of tenths (the step of the number       *)
(*    inputs is 0.1), so 0.5 is 5 and 12 is 120.                           *)
(*  - A string that the code trims, lower-cases or parses is the tuple of  *)
(*    its characters.  A weekStart is only compared (localeCompare) and    *)
(*    parsed as a date, so it is kept as a string of the table WeekStrings *)
(*    that lists the modelled weekStart values in collation order.         *)
(*  - An optional number (number | undefined) is <<>> when absent and      *)
(*    <<n>> when present.                                                  *)
(***************************************************************************)
EXTENDS Integers, Sequences, FiniteSets, TLC

VARIABLES
    entries,      \* App: the useState collection of WeekEntry (line 298)
    importError,  \* App: the useState import error message (line 299)
    crashed,      \* App: TRUE once a state updater has thrown
    raw,          \* sanitizer run: the value handed to parseStoredEntries
    parsed,       \* sanitizer run: <<>>, or <<r>> once the call has returned r
    input,        \* derivation run: the argument of computeDerivedWeeks
    derived,      \* derivation run: what computeDerivedWeeks returned
    streaks,      \* the three streak counters as the last call left them
    pinned        \* derivation run: an earlier call, kept for comparison

vars == <<entries, importError, crashed, raw, parsed, input, derived, streaks, pinned>>

appVars == <<entries, importError, crashed>>
sanitizeVars == <<raw, parsed>>
deriveVars == <<input, derived, streaks, pinned>>

-----------------------------------------------------------------------------
(* Bounds of the model.                                                    *)

\* The longest working collection the add and copy actions build.
MaxEntries == 2

-----------------------------------------------------------------------------
(* JavaScript values.                                                      *)

Undefined == [t |-> "undefined", v |-> 0]
Null == [t |-> "null", v |-> 0]
NaN == [t |-> "NaN", v |-> 0]
Infinity == [t |-> "Infinity", v |-> 0]
Num(n) == [t |-> "number", v |-> n]
Str(s) == [t |-> "string", v |-> s]
Bool(b) == [t |-> "boolean", v |-> b]
Arr(items) == [t |-> "array", v |-> items]
Obj(props) == [t |-> "object", v |-> props]

\* typeof value
TypeOf(value) ==
    IF value.t \in {"number", "NaN", "Infinity"} THEN "number"
    ELSE IF value.t \in {"null", "array", "object"} THEN "object"
    ELSE value.t

\* Number.isFinite(value), for a value whose typeof is "number"
IsFinite(value) == value.t = "number"

\* Boolean(value): false for false, 0, NaN, "", null and undefined
Truthy(value) ==
    CASE value.t = "boolean" -> value.v
      [] value.t = "number" -> value.v # 0
      [] value.t = "string" -> value.v # <<>>
      [] value.t \in {"undefined", "null", "NaN"} -> FALSE
      [] OTHER -> TRUE

\* The value of an optional number that is absent.
undefined == <<>>

-----------------------------------------------------------------------------
(* Strings as tuples of characters.                                        *)

WhiteSpace == {" "}

RECURSIVE TrimStart(_)
TrimStart(s) ==
    IF s # <<>> /\ Head(s) \in WhiteSpace THEN TrimStart(Tail(s)) ELSE s

RECURSIVE TrimEnd(_)
TrimEnd(s) ==
    IF s # <<>> /\ s[Len(s)] \in WhiteSpace
    THEN TrimEnd(SubSeq(s, 1, Len(s) - 1))
    ELSE s

\* String.prototype.trim
Trim(s) == TrimEnd(TrimStart(s))

LowerOf ==
    ("A" :> "a") @@ ("E" :> "e") @@ ("F" :> "f") @@ ("L" :> "l") @@
    ("R" :> "r") @@ ("S" :> "s") @@ ("T" :> "t") @@ ("U" :> "u") @@
    ("Y" :> "y") @@ ("N" :> "n") @@ ("O" :> "o")

\* String.prototype.toLowerCase, on the letters the sample strings use
ToLowerCase(s) ==
    [i \in 1..Len(s) |-> IF s[i] \in DOMAIN LowerOf THEN LowerOf[s[i]] ELSE s[i]]

DigitVal ==
    ("0" :> 0) @@ ("1" :> 1) @@ ("2" :> 2) @@ ("3" :> 3) @@ ("4" :> 4) @@
    ("5" :> 5) @@ ("6" :> 6) @@ ("7" :> 7) @@ ("8" :> 8) @@ ("9" :> 9)

AllDigits(s) == \A i \in 1..Len(s) : s[i] \in DOMAIN DigitVal

RECURSIVE DigitsValue(_)
DigitsValue(s) ==
    IF s = <<>> THEN 0
    ELSE 10 * DigitsValue(SubSeq(s, 1, Len(s) - 1)) + DigitVal[s[Len(s)]]

\* Number(s) for a trimmed, non-empty string s: an optional sign, digits and
\* at most one fractional digit give that number (in tenths); "Infinity"
\* gives Infinity; any other text of the sample strings gives NaN.
ToNumber(s) ==
    LET neg == Head(s) = "-"
        body == IF neg THEN Tail(s) ELSE s
        dots == {i \in 1..Len(body) : body[i] = "."}
        dot == IF dots = {} THEN Len(body) + 1 ELSE CHOOSE i \in dots : \A j \in dots : i <= j
        whole == SubSeq(body, 1, dot - 1)
        frac == SubSeq(body, dot + 1, Len(body))
        magnitude == 10 * DigitsValue(whole) + (IF frac = <<>> THEN 0 ELSE DigitVal[frac[1]])
    IN  IF body = <<"I", "n", "f", "i", "n", "i", "t", "y">> THEN Infinity
        ELSE IF /\ AllDigits(whole) /\ AllDigits(frac)
                /\ Len(whole) + Len(frac) > 0 /\ Len(frac) <= 1
             THEN Num(IF neg THEN 0 - magnitude ELSE magnitude)
             ELSE NaN

-----------------------------------------------------------------------------
(* Week ordering.                                                          *)

\* The weekStart strings of the model in the order localeCompare gives them:
\* the empty string (a cleared date input), then ISO dates a week apart.
WeekStrings ==
    << "", "2024-01-01", "2024-01-08", "2024-01-15", "2024-01-22", "2024-01-29",
       "2024-02-05", "2024-02-12", "2024-02-19", "2024-02-26", "2024-03-04",
       "2024-03-11", "2024-03-18" >>

Rank(s) == CHOOSE i \in 1..Len(WeekStrings) : WeekStrings[i] = s

\* a.localeCompare(b): negative, zero or positive
localeCompare(a, b) == Rank(a) - Rank(b)

\* An insertion that puts an entry before the entries it compares equal to.
RECURSIVE InsertBeforeEqual(_, _)
InsertBeforeEqual(e, s) ==
    IF s = <<>> THEN <<e>>
    ELSE IF localeCompare(e.weekStart, Head(s).weekStart) <= 0 THEN <<e>> \o s
    ELSE <<Head(s)>> \o InsertBeforeEqual(e, Tail(s))

\* Array.prototype.sort is stable: an entry goes after the entries that do
\* not compare greater than it.
RECURSIVE InsertOrdered(_, _)
InsertOrdered(e, s) ==
    IF s = <<>> THEN <<e>>
    ELSE IF localeCompare(e.weekStart, Head(s).weekStart) < 0 THEN <<e>> \o s
    ELSE <<Head(s)>> \o InsertOrdered(e, Tail(s))

RECURSIVE sortEntries(_)
sortEntries(es) ==
    IF es = <<>> THEN <<>>
    ELSE InsertOrdered(es[Len(es)], sortEntries(SubSeq(es, 1, Len(es) - 1)))

\* new Date(s) is a valid date for the ISO strings and Invalid Date for "".
IsValidDate(s) == s # ""

\* nextWeekStart(current) of a valid date: seven days later.  (setDate works
\* in local time and formatDate in UTC: this is the result in a time zone
\* whose offset does not change within those seven days.)
nextWeekStart(current) == WeekStrings[Rank(current) + 1]

-----------------------------------------------------------------------------
(* Entries.                                                                *)

NumberKeys ==
    { "deepWorkH", "playH", "realContactsPerWeek", "sleepScore",
      "alcoholDeviationPerWeek", "avgStepsPerDay", "emergencyFundMonths",
      "pipelineActionsPerWeek", "incomeJPY" }

createEmptyEntry(weekStart) ==
    [ weekStart |-> weekStart,
      deepWorkH |-> undefined,
      playH |-> undefined,
      realContactsPerWeek |-> undefined,
      sleepScore |-> undefined,
      alcoholDeviationPerWeek |-> undefined,
      avgStepsPerDay |-> undefined,
      emergencyFundMonths |-> undefined,
      pipelineActionsPerWeek |-> undefined,
      incomeJPY |-> undefined,
      manualRedFlag |-> FALSE,
      paymentRedFlag |-> FALSE,
      notes |-> <<>> ]

-----------------------------------------------------------------------------
(* The entry sanitizer.                                                    *)

\* A toNumericValue that takes every falsy value, the number 0 too, as absent.
toNumericValueTruthy(value) ==
    IF ~Truthy(value) THEN undefined
    ELSE IF TypeOf(value) = "number"
         THEN (IF IsFinite(value) THEN <<value.v>> ELSE undefined)
    ELSE IF TypeOf(value) = "string"
         THEN LET n == ToNumber(Trim(value.v))
              IN  IF Trim(value.v) # <<>> /\ IsFinite(n) THEN <<n.v>> ELSE undefined
    ELSE undefined

toNumericValue(value) ==
    IF value.t \in {"null", "undefined"} THEN undefined
    ELSE IF TypeOf(value) = "number"
         THEN (IF IsFinite(value) THEN <<value.v>> ELSE undefined)
    ELSE IF TypeOf(value) = "string"
         THEN LET trimmed == Trim(value.v)
              IN  IF trimmed = <<>> THEN undefined
                  ELSE LET n == ToNumber(trimmed)
                       IN  IF IsFinite(n) THEN <<n.v>> ELSE undefined
    ELSE undefined

\* toBooleanValue comparing the trimmed string as it is written.
toBooleanValueCaseSensitive(value) ==
    IF TypeOf(value) = "boolean" THEN value.v
    ELSE IF TypeOf(value) = "string" /\ Trim(value.v) = <<"t", "r", "u", "e">> THEN TRUE
    ELSE IF TypeOf(value) = "string" /\ Trim(value.v) = <<"f", "a", "l", "s", "e">> THEN FALSE
    ELSE Truthy(value)

toBooleanValue(value) ==
    IF TypeOf(value) = "boolean" THEN value.v
    ELSE IF TypeOf(value) = "string"
              /\ ToLowerCase(Trim(value.v)) = <<"t", "r", "u", "e">>
         THEN TRUE
    ELSE IF TypeOf(value) = "string"
              /\ ToLowerCase(Trim(value.v)) = <<"f", "a", "l", "s", "e">>
         THEN FALSE
    ELSE Truthy(value)

\* (item as WeekEntry)[key]: a property of an object of the JSON text, and
\* undefined on any other value that passed the object test (an array).
Prop(item, key) == IF item.t = "object" THEN item.v[key] ELSE Undefined

\* An element of the array is accepted when it is a non-null object whose
\* weekStart is a string.
ItemAccepted(item) ==
    /\ Truthy(item)
    /\ TypeOf(item) = "object"
    /\ TypeOf(Prop(item, "weekStart")) = "string"

\* The entry pushed for an accepted element.
SanitizeItem(item) ==
    [ weekStart |-> Prop(item, "weekStart").v,
      deepWorkH |-> toNumericValue(Prop(item, "deepWorkH")),
      playH |-> toNumericValue(Prop(item, "playH")),
      realContactsPerWeek |-> toNumericValue(Prop(item, "realContactsPerWeek")),
      sleepScore |-> toNumericValue(Prop(item, "sleepScore")),
      alcoholDeviationPerWeek |-> toNumericValue(Prop(item, "alcoholDeviationPerWeek")),
      avgStepsPerDay |-> toNumericValue(Prop(item, "avgStepsPerDay")),
      emergencyFundMonths |-> toNumericValue(Prop(item, "emergencyFundMonths")),
      pipelineActionsPerWeek |-> toNumericValue(Prop(item, "pipelineActionsPerWeek")),
      incomeJPY |-> toNumericValue(Prop(item, "incomeJPY")),
      manualRedFlag |-> toBooleanValue(Prop(item, "manualRedFlag")),
      paymentRedFlag |-> toBooleanValue(Prop(item, "paymentRedFlag")),
      notes |-> IF TypeOf(Prop(item, "notes")) = "string"
                THEN Prop(item, "notes").v ELSE <<>> ]

\* What parseStoredEntries returns: null, or the sorted array of entries.
Rejected == [ok |-> FALSE, entries |-> <<>>]
Accepted(es) == [ok |-> TRUE, entries |-> es]

\* A loop that skips an element it does not accept and keeps the others.
RECURSIVE ParseLoopSkipping(_, _)
ParseLoopSkipping(items, sanitized) ==
    IF items = <<>> THEN Accepted(sortEntries(sanitized))
    ELSE IF ~ItemAccepted(Head(items)) THEN ParseLoopSkipping(Tail(items), sanitized)
    ELSE ParseLoopSkipping(Tail(items), Append(sanitized, SanitizeItem(Head(items))))

\* The for loop of parseStoredEntries over the elements not yet visited:
\* the first element that is not accepted ends the call with null.
RECURSIVE ParseLoop(_, _)
ParseLoop(items, sanitized) ==
    IF items = <<>> THEN Accepted(sortEntries(sanitized))
    ELSE IF ~ItemAccepted(Head(items)) THEN Rejected
    ELSE ParseLoop(Tail(items), Append(sanitized, SanitizeItem(Head(items))))

parseStoredEntries(value) ==
    IF value.t # "array" THEN Rejected ELSE ParseLoop(value.v, <<>>)

-----------------------------------------------------------------------------
(* JSON texts: the content of the storage item and of an imported file.    *)
(* A text is modelled by what JSON.parse makes of it.                      *)

JsonText(value) == [t |-> "json", v |-> value]
GarbageText == [t |-> "garbage", v |-> 0]
NoItem == [t |-> "none", v |-> 0]

\* JSON.parse(text): the value, or a SyntaxError thrown.
JSONparse(text) ==
    IF text.t = "json" THEN [threw |-> FALSE, value |-> text.v]
    ELSE [threw |-> TRUE, value |-> Undefined]

OptionalToJson(n) == IF n = undefined THEN Undefined ELSE Num(n[1])

\* The object JSON.stringify writes for an entry and JSON.parse reads back:
\* a property whose value is undefined is left out, so it reads as undefined.
EntryToJson(e) ==
    Obj([ weekStart |-> Str(e.weekStart),
          deepWorkH |-> OptionalToJson(e.deepWorkH),
          playH |-> OptionalToJson(e.playH),
          realContactsPerWeek |-> OptionalToJson(e.realContactsPerWeek),
          sleepScore |-> OptionalToJson(e.sleepScore),
          alcoholDeviationPerWeek |-> OptionalToJson(e.alcoholDeviationPerWeek),
          avgStepsPerDay |-> OptionalToJson(e.avgStepsPerDay),
          emergencyFundMonths |-> OptionalToJson(e.emergencyFundMonths),
          pipelineActionsPerWeek |-> OptionalToJson(e.pipelineActionsPerWeek),
          incomeJPY |-> OptionalToJson(e.incomeJPY),
          manualRedFlag |-> Bool(e.manualRedFlag),
          paymentRedFlag |-> Bool(e.paymentRedFlag),
          notes |-> Str(e.notes) ])

\* JSON.stringify(entries)
JSONstringify(es) == JsonText(Arr([i \in 1..Len(es) |-> EntryToJson(es[i])]))

\* saveEntries, run by the effect on every change of entries: the text it
\* leaves in the storage item.
saveEntries(es) == JSONstringify(es)

\* loadEntries, given the storage item and the Monday of the current week.
loadEntries(item, monday) ==
    IF item.t = "none" THEN <<createEmptyEntry(monday)>>
    ELSE LET p == JSONparse(item)
             sanitized == parseStoredEntries(p.value)
         IN  IF p.threw THEN <<createEmptyEntry(monday)>>
             ELSE IF ~sanitized.ok \/ Len(sanitized.entries) = 0
                  THEN <<createEmptyEntry(monday)>>
             ELSE sortEntries(sanitized.entries)

-----------------------------------------------------------------------------
(* Scoring rules and derivation.                                           *)

\* The number whole.tenth in the unit of the model (tenths).
N(whole, tenth) == 10 * whole + tenth

\* The deep-work rule with thresholds that are not inclusive.
scoreDeepWorkHExclusive(value) ==
    IF value > N(12, 0) THEN 2 ELSE IF value > N(6, 0) THEN 1 ELSE 0

scoreDeepWorkH(value) == IF value >= N(12, 0) THEN 2 ELSE IF value >= N(6, 0) THEN 1 ELSE 0
scorePlayH(value) == IF value >= N(6, 0) THEN 2 ELSE IF value >= N(2, 0) THEN 1 ELSE 0
scoreRealContactsPerWeek(value) ==
    IF value >= N(1, 0) THEN 2 ELSE IF value >= N(0, 5) THEN 1 ELSE 0
scoreSleepScore(value) == IF value >= N(7, 0) THEN 2 ELSE IF value >= N(5, 0) THEN 1 ELSE 0
scoreAlcoholDeviationPerWeek(value) ==
    IF value = N(0, 0) THEN 2 ELSE IF value = N(1, 0) THEN 1 ELSE 0
scoreAvgStepsPerDay(value) ==
    IF value >= N(7000, 0) THEN 2 ELSE IF value >= N(4000, 0) THEN 1 ELSE 0
scoreEmergencyFundMonths(value) ==
    IF value >= N(12, 0) THEN 2 ELSE IF value >= N(6, 0) THEN 1 ELSE 0
scorePipelineActionsPerWeek(value) ==
    IF value >= N(2, 0) THEN 2 ELSE IF value >= N(1, 0) THEN 1 ELSE 0

\* The labels of emojiMap, the coloured circle written as a word.
emojiMap == [A |-> "green A", B |-> "yellow B", C |-> "red C"]

\* value ?? 0
valueOrZero(value) == IF value = undefined THEN 0 ELSE value[1]

\* Counters that live outside the function and keep their values.
StartStreaksKept == streaks

\* let sleepStreak = 0; let contactStreak = 0; let noIncomeStreak = 0;
StartStreaks == [sleepStreak |-> 0, contactStreak |-> 0, noIncomeStreak |-> 0]

totalScoreOf(entry) ==
    scoreDeepWorkH(valueOrZero(entry.deepWorkH))
    + scorePlayH(valueOrZero(entry.playH))
    + scoreRealContactsPerWeek(valueOrZero(entry.realContactsPerWeek))
    + scoreSleepScore(valueOrZero(entry.sleepScore))
    + scoreAlcoholDeviationPerWeek(valueOrZero(entry.alcoholDeviationPerWeek))
    + scoreAvgStepsPerDay(valueOrZero(entry.avgStepsPerDay))
    + scoreEmergencyFundMonths(valueOrZero(entry.emergencyFundMonths))
    + scorePipelineActionsPerWeek(valueOrZero(entry.pipelineActionsPerWeek))

baseGradeOf(totalScore) ==
    IF totalScore >= 13 THEN "A" ELSE IF totalScore >= 8 THEN "B" ELSE "C"

\* The counters when the streak tests read the fields as they are: a
\* comparison of undefined with a number is false.
StepStreaksOnRawFields(entry, s) ==
    [ sleepStreak |->
          IF entry.sleepScore # undefined /\ entry.sleepScore[1] <= N(4, 0)
          THEN s.sleepStreak + 1 ELSE 0,
      contactStreak |->
          IF entry.realContactsPerWeek # undefined /\ entry.realContactsPerWeek[1] <= 0
          THEN s.contactStreak + 1 ELSE 0,
      noIncomeStreak |->
          IF entry.incomeJPY # undefined /\ entry.incomeJPY[1] <= 0
          THEN s.noIncomeStreak + 1 ELSE 0 ]

\* The counters when a sleepScore of exactly 4 does not count as low.
StepStreaksSleepBelowFour(entry, s) ==
    [ sleepStreak |->
          IF valueOrZero(entry.sleepScore) < N(4, 0) THEN s.sleepStreak + 1 ELSE 0,
      contactStreak |->
          IF valueOrZero(entry.realContactsPerWeek) <= 0 THEN s.contactStreak + 1 ELSE 0,
      noIncomeStreak |->
          IF valueOrZero(entry.incomeJPY) <= 0 THEN s.noIncomeStreak + 1 ELSE 0 ]

\* The counters after the callback of map has seen entry.
StepStreaks(entry, s) ==
    [ sleepStreak |->
          IF valueOrZero(entry.sleepScore) <= N(4, 0) THEN s.sleepStreak + 1 ELSE 0,
      contactStreak |->
          IF valueOrZero(entry.realContactsPerWeek) <= 0 THEN s.contactStreak + 1 ELSE 0,
      noIncomeStreak |->
          IF valueOrZero(entry.incomeJPY) <= 0 THEN s.noIncomeStreak + 1 ELSE 0 ]

\* The flags when the no-income flag is raised a week early.
autoFlagsOfSeventhWeek(s) ==
    [ sleep |-> s.sleepStreak >= 2,
      contacts |-> s.contactStreak >= 2,
      noIncome |-> s.noIncomeStreak >= 7 ]

autoFlagsOf(s) ==
    [ sleep |-> s.sleepStreak >= 2,
      contacts |-> s.contactStreak >= 2,
      noIncome |-> s.noIncomeStreak >= 8 ]

overallRedFlagOf(entry, autoFlags) ==
    \/ entry.manualRedFlag = TRUE
    \/ entry.paymentRedFlag = TRUE
    \/ autoFlags.sleep \/ autoFlags.contacts \/ autoFlags.noIncome

\* The grade when a raised flag does not override it.
gradeOfWithoutOverride(overallRedFlag, baseGrade) == baseGrade

gradeOf(overallRedFlag, baseGrade) == IF overallRedFlag THEN "C" ELSE baseGrade

\* The DerivedWeek the callback of map returns for entry, the counters being
\* s when it is called.
DeriveWeek(entry, s) ==
    LET totalScore == totalScoreOf(entry)
        baseGrade == baseGradeOf(totalScore)
        autoFlags == autoFlagsOf(StepStreaks(entry, s))
        overallRedFlag == overallRedFlagOf(entry, autoFlags)
    IN  [ entry |-> entry,
          totalScore |-> totalScore,
          grade |-> gradeOf(overallRedFlag, baseGrade),
          emojiLabel |-> IF overallRedFlag THEN emojiMap.C ELSE emojiMap[baseGrade],
          autoFlags |-> autoFlags,
          overallRedFlag |-> overallRedFlag ]

\* sortEntries(entries).map(callback): the weeks so far and the counters.
RECURSIVE MapWeeks(_, _, _)
MapWeeks(sorted, s, weeks) ==
    IF sorted = <<>> THEN [weeks |-> weeks, streaks |-> s]
    ELSE MapWeeks(Tail(sorted), StepStreaks(Head(sorted), s),
                  Append(weeks, DeriveWeek(Head(sorted), s)))

\* One call of computeDerivedWeeks: what it returns and the counters it leaves.
DeriveCall(es) == MapWeeks(sortEntries(es), StartStreaks, <<>>)

computeDerivedWeeks(es) == DeriveCall(es).weeks

-----------------------------------------------------------------------------
(* The handlers of App: each is the state updater it hands to setEntries.  *)

NoError == "null"
ImportFailed == "import failed"

LastOf(s) == s[Len(s)]

\* handleEntryChange without the closing sort.
handleEntryChangeUnsorted(prev, index, key, value) ==
    [prev EXCEPT ![index][key] = value]

handleEntryChange(prev, index, key, value) ==
    sortEntries([prev EXCEPT ![index][key] = value])

\* The number inputs hand over the text of the input.
handleNumberChange(prev, index, key, text) ==
    handleEntryChange(prev, index, key, toNumericValue(Str(text)))

\* formatDate throws a RangeError for an Invalid Date, so nextWeekStart
\* throws when the last weekStart is no date.
NextWeekThrows(prev) ==
    prev # <<>> /\ ~IsValidDate(LastOf(sortEntries(prev)).weekStart)

handleAddWeek(prev, monday) ==
    LET sorted == sortEntries(prev)
        newWeekStart ==
            IF sorted # <<>> THEN nextWeekStart(LastOf(sorted).weekStart) ELSE monday
    IN  sortEntries(Append(sorted, createEmptyEntry(newWeekStart)))

handleCopyPrevious(prev) ==
    LET sorted == sortEntries(prev)
        last == LastOf(sorted)
    IN  IF sorted = <<>> THEN sorted
        ELSE sortEntries(Append(sorted,
                [ weekStart |-> nextWeekStart(last.weekStart),
                  deepWorkH |-> last.deepWorkH,
                  playH |-> last.playH,
                  realContactsPerWeek |-> last.realContactsPerWeek,
                  sleepScore |-> last.sleepScore,
                  alcoholDeviationPerWeek |-> last.alcoholDeviationPerWeek,
                  avgStepsPerDay |-> last.avgStepsPerDay,
                  emergencyFundMonths |-> last.emergencyFundMonths,
                  pipelineActionsPerWeek |-> last.pipelineActionsPerWeek,
                  incomeJPY |-> last.incomeJPY,
                  manualRedFlag |-> FALSE,
                  paymentRedFlag |-> FALSE,
                  notes |-> <<>> ]))

handleDeleteEntry(prev, index) ==
    IF Len(prev) <= 1 THEN prev
    ELSE sortEntries([i \in 1..(Len(prev) - 1) |->
                        IF i < index THEN prev[i] ELSE prev[i + 1]])

\* A handleImport that empties the collection when the import fails.
handleImportClearing(prev, text) ==
    LET p == JSONparse(text)
        sanitized == parseStoredEntries(p.value)
    IN  IF p.threw \/ ~sanitized.ok
        THEN [entries |-> <<>>, importError |-> ImportFailed]
        ELSE [entries |-> sanitized.entries, importError |-> NoError]

\* handleImport on the text of the chosen file: the new entries and error.
\* (With no file chosen the handler returns and nothing changes.)
handleImport(prev, text) ==
    LET p == JSONparse(text)
        sanitized == parseStoredEntries(p.value)
    IN  IF p.threw \/ ~sanitized.ok
        THEN [entries |-> prev, importError |-> ImportFailed]
        ELSE [entries |-> sanitized.entries, importError |-> NoError]

handleClearAll(monday) == <<createEmptyEntry(monday)>>

-----------------------------------------------------------------------------
(* The inputs of the App specification.                                    *)

\* formatDate(getMonday(new Date())): the Monday of the current week.
Mondays == {"2024-01-08"}

\* What a date input hands over: a date, or "" when it is cleared.
DateInputs == {"", "2024-01-01", "2024-01-08"}

\* The add and copy actions stop at the last of these weeks.
AppWeeks == {"", "2024-01-01", "2024-01-08"}

\* The texts typed into number inputs, as <<key, text>>.
NumberEdits ==
    { <<"incomeJPY", <<"-", "1">> >>, <<"incomeJPY", <<>> >> }

FlagEdits == { <<"manualRedFlag", TRUE>>, <<"manualRedFlag", FALSE>> }

NoteEdits == { <<>> }

\* An object of a JSON text: the properties given, every other one missing.
BlankProps ==
    [ weekStart |-> Undefined, deepWorkH |-> Undefined, playH |-> Undefined,
      realContactsPerWeek |-> Undefined, sleepScore |-> Undefined,
      alcoholDeviationPerWeek |-> Undefined, avgStepsPerDay |-> Undefined,
      emergencyFundMonths |-> Undefined, pipelineActionsPerWeek |-> Undefined,
      incomeJPY |-> Undefined, manualRedFlag |-> Undefined,
      paymentRedFlag |-> Undefined, notes |-> Undefined ]

JsonObject(props) == Obj(props @@ BlankProps)

\* A week with every field written, as an export of the application has it.
FullWeekJson ==
    JsonObject([ weekStart |-> Str("2024-01-08"),
                 deepWorkH |-> Num(125), playH |-> Num(60),
                 realContactsPerWeek |-> Num(5), sleepScore |-> Num(70),
                 alcoholDeviationPerWeek |-> Num(10), avgStepsPerDay |-> Num(40000),
                 emergencyFundMonths |-> Num(30), pipelineActionsPerWeek |-> Num(20),
                 incomeJPY |-> Num(3000000), manualRedFlag |-> Bool(FALSE),
                 paymentRedFlag |-> Bool(TRUE), notes |-> Str(<<"o", "k">>) ])

\* A hand-written week: numbers as text, a negative income.
EarlyWeekJson ==
    JsonObject([ weekStart |-> Str("2024-01-01"),
                 incomeJPY |-> Str(<<" ", "-", "1", " ">>),
                 manualRedFlag |-> Str(<<"T", "r", "u", "e">>) ])

NoWeekStartJson == JsonObject([ incomeJPY |-> Num(10) ])

\* The files offered to the import, and the storage items found at start.
ImportFiles ==
    { GarbageText,
      JsonText(Null),
      JsonText(Arr(<<>>)),
      JsonText(Arr(<<NoWeekStartJson>>)),
      JsonText(Arr(<<FullWeekJson, NoWeekStartJson>>)),
      JsonText(Arr(<<FullWeekJson, EarlyWeekJson>>)) }

StoredItems ==
    { NoItem,
      GarbageText,
      JsonText(Arr(<<>>)),
      JsonText(Arr(<<NoWeekStartJson>>)),
      JsonText(Arr(<<FullWeekJson>>)) }

-----------------------------------------------------------------------------
(* The App specification: the working collection under the handlers.       *)

ZeroStreaks == [sleepStreak |-> 0, contactStreak |-> 0, noIncomeStreak |-> 0]
NothingPinned == [set |-> FALSE, input |-> <<>>, derived |-> <<>>, other |-> FALSE]

NotCalled == [called |-> FALSE, weeks |-> <<>>]
Returned(weeks) == [called |-> TRUE, weeks |-> weeks]

IdleSanitizer == raw = Undefined /\ parsed = <<>>
IdleDerivation ==
    input = <<>> /\ derived = NotCalled /\ streaks = ZeroStreaks /\ pinned = NothingPinned

\* useState(() => loadEntries()) and useState(null)
Init ==
    /\ \E item \in StoredItems, monday \in Mondays :
          entries = loadEntries(item, monday)
    /\ importError = NoError
    /\ crashed = FALSE
    /\ IdleSanitizer
    /\ IdleDerivation

Throw ==
    /\ crashed' = TRUE
    /\ UNCHANGED <<entries, importError>>

AddWeek ==
    /\ ~crashed
    /\ Len(entries) < MaxEntries
    /\ IF NextWeekThrows(entries) THEN Throw
       ELSE /\ entries # <<>> => nextWeekStart(LastOf(entries).weekStart) \in AppWeeks
            /\ \E monday \in Mondays : entries' = handleAddWeek(entries, monday)
            /\ UNCHANGED <<importError, crashed>>
    /\ UNCHANGED <<sanitizeVars, deriveVars>>

CopyPrevious ==
    /\ ~crashed
    /\ Len(entries) < MaxEntries
    /\ IF NextWeekThrows(entries) THEN Throw
       ELSE /\ entries # <<>> => nextWeekStart(LastOf(entries).weekStart) \in AppWeeks
            /\ entries' = handleCopyPrevious(entries)
            /\ UNCHANGED <<importError, crashed>>
    /\ UNCHANGED <<sanitizeVars, deriveVars>>

ChangeWeekStart ==
    /\ ~crashed
    /\ \E index \in 1..Len(entries), value \in DateInputs :
          entries' = handleEntryChange(entries, index, "weekStart", value)
    /\ UNCHANGED <<importError, crashed, sanitizeVars, deriveVars>>

ChangeNumber ==
    /\ ~crashed
    /\ \E index \in 1..Len(entries), edit \in NumberEdits :
          entries' = handleNumberChange(entries, index, edit[1], edit[2])
    /\ UNCHANGED <<importError, crashed, sanitizeVars, deriveVars>>

ChangeFlag ==
    /\ ~crashed
    /\ \E index \in 1..Len(entries), edit \in FlagEdits :
          entries' = handleEntryChange(entries, index, edit[1], edit[2])
    /\ UNCHANGED <<importError, crashed, sanitizeVars, deriveVars>>

ChangeNotes ==
    /\ ~crashed
    /\ \E index \in 1..Len(entries), value \in NoteEdits :
          entries' = handleEntryChange(entries, index, "notes", value)
    /\ UNCHANGED <<importError, crashed, sanitizeVars, deriveVars>>

DeleteEntry ==
    /\ ~crashed
    /\ \E index \in 1..Len(entries) : entries' = handleDeleteEntry(entries, index)
    /\ UNCHANGED <<importError, crashed, sanitizeVars, deriveVars>>

Import ==
    /\ ~crashed
    /\ \E text \in ImportFiles :
          LET done == handleImport(entries, text)
          IN  /\ entries' = done.entries
              /\ importError' = done.importError
    /\ UNCHANGED <<crashed, sanitizeVars, deriveVars>>

ClearAll ==
    /\ ~crashed
    /\ \E monday \in Mondays : entries' = handleClearAll(monday)
    /\ UNCHANGED <<importError, crashed, sanitizeVars, deriveVars>>

\* The page is loaded again: the state is built from what the effect saved.
Reload ==
    /\ \E monday \in Mondays :
          entries' = loadEntries(saveEntries(sortEntries(entries)), monday)
    /\ importError' = NoError
    /\ crashed' = FALSE
    /\ UNCHANGED <<sanitizeVars, deriveVars>>

Next ==
    \/ AddWeek
    \/ CopyPrevious
    \/ ChangeWeekStart
    \/ ChangeNumber
    \/ ChangeFlag
    \/ ChangeNotes
    \/ DeleteEntry
    \/ Import
    \/ ClearAll
    \/ Reload

Spec == Init /\ [][Next]_vars

\* C1: the working collection holds at least one entry in every state.
NeverEmpty == Len(entries) >= 1

\* C5: the working collection is sorted ascending by weekStart.
SortedByWeekStart ==
    \A i \in 1..(Len(entries) - 1) :
        localeCompare(entries[i].weekStart, entries[i + 1].weekStart) <= 0

\* The week of 2024-01-08 has been given an empty weekStart and now stands
\* before the week of 2024-01-01.
SortedByWeekStartWitness ==
    /\ Len(entries) = 2
    /\ entries[1].weekStart = ""
    /\ entries[1].deepWorkH = <<125>>
    /\ entries[2].weekStart = "2024-01-01"
    /\ entries[2].incomeJPY = <<-10>>

\* C10: incomeJPY of every entry of the working collection is absent or >= 0.
IncomeNonNegative ==
    \A i \in 1..Len(entries) :
        entries[i].incomeJPY = undefined \/ entries[i].incomeJPY[1] >= 0

-----------------------------------------------------------------------------
(* The sanitizer specification: parseStoredEntries on the values that      *)
(* JSON.parse can hand it.                                                 *)

\* The longest array built from SampleItems.
MaxRawLen == 2

\* The values a property of a parsed JSON object can have (a missing
\* property reads as undefined; 1e999 parses to Infinity).
FieldValues ==
    { Undefined, Null, Bool(TRUE), Bool(FALSE),
      Num(0), Num(10), Num(-10), Num(5), Infinity,
      Arr(<<>>),
      Str(<<>>), Str(<<" ">>),
      Str(<<"t", "r", "u", "e">>), Str(<<"T", "R", "U", "E">>),
      Str(<<" ", "t", "r", "u", "e", " ">>),
      Str(<<"f", "a", "l", "s", "e">>), Str(<<"F", "a", "l", "s", "e">>),
      Str(<<" ", "f", "a", "l", "s", "e">>),
      Str(<<"y", "e", "s">>), Str(<<"n", "o">>),
      Str(<<"0">>), Str(<<"1", "2">>), Str(<<" ", "7", ".", "5", " ">>),
      Str(<<"-", "3">>), Str(<<"I", "n", "f", "i", "n", "i", "t", "y">>),
      Str(<<"1", "2", "h">>) }

ProbedFields == NumberKeys \cup {"manualRedFlag", "paymentRedFlag", "notes"}

\* An object with a weekStart and one more property.
ProbeJson(key, value) ==
    Obj((key :> value) @@ [BlankProps EXCEPT !.weekStart = Str("2024-01-15")])

SampleItems ==
    { FullWeekJson, EarlyWeekJson, NoWeekStartJson,
      JsonObject([weekStart |-> Num(20240108)]),
      Null, Arr(<<>>), Str(<<"2", "0", "2", "4">>) }

RECURSIVE SeqsUpTo(_, _)
SeqsUpTo(S, n) ==
    IF n = 0 THEN {<<>>}
    ELSE LET shorter == SeqsUpTo(S, n - 1)
         IN  shorter \cup {Append(q, x) : q \in {r \in shorter : Len(r) = n - 1}, x \in S}

RawInputs ==
    {Null, Num(10), Str(<<"[", "]">>), FullWeekJson}
    \cup {Arr(<<ProbeJson(key, value)>>) : key \in ProbedFields, value \in FieldValues}
    \cup {Arr(items) : items \in SeqsUpTo(SampleItems, MaxRawLen)}

IdleApp == entries = <<>> /\ importError = NoError /\ crashed = FALSE

InitSanitize ==
    /\ raw \in RawInputs
    /\ parsed = <<>>
    /\ IdleApp
    /\ IdleDerivation

\* parseStoredEntries(raw) is called and returns.
Parse ==
    /\ parsed = <<>>
    /\ parsed' = <<parseStoredEntries(raw)>>
    /\ UNCHANGED <<raw, appVars, deriveVars>>

\* The next value is handed over.
NextRaw ==
    /\ parsed # <<>>
    /\ raw' \in RawInputs
    /\ parsed' = <<>>
    /\ UNCHANGED <<appVars, deriveVars>>

NextSanitize == Parse \/ NextRaw

SpecSanitize == InitSanitize /\ [][NextSanitize]_vars

-----------------------------------------------------------------------------
(* The derivation specification: computeDerivedWeeks on entry sequences.   *)

\* The longest sequence built from ShortWeeks.
MaxWeeks == 3

\* The longest run of weeks that differ in their income only.
IncomeWeeks == 10

W1 == "2024-01-01"
W2 == "2024-01-08"
W3 == "2024-01-15"

\* Every metric exactly at the threshold of its top tier.
TopWeek(weekStart, income) ==
    [ createEmptyEntry(weekStart) EXCEPT
        !.deepWorkH = <<N(12, 0)>>, !.playH = <<N(6, 0)>>,
        !.realContactsPerWeek = <<N(1, 0)>>, !.sleepScore = <<N(7, 0)>>,
        !.alcoholDeviationPerWeek = <<N(0, 0)>>, !.avgStepsPerDay = <<N(7000, 0)>>,
        !.emergencyFundMonths = <<N(12, 0)>>, !.pipelineActionsPerWeek = <<N(2, 0)>>,
        !.incomeJPY = income ]

\* Every metric exactly at the threshold of its middle tier.
MidWeek(weekStart, income) ==
    [ createEmptyEntry(weekStart) EXCEPT
        !.deepWorkH = <<N(6, 0)>>, !.playH = <<N(2, 0)>>,
        !.realContactsPerWeek = <<N(0, 5)>>, !.sleepScore = <<N(5, 0)>>,
        !.alcoholDeviationPerWeek = <<N(1, 0)>>, !.avgStepsPerDay = <<N(4000, 0)>>,
        !.emergencyFundMonths = <<N(6, 0)>>, !.pipelineActionsPerWeek = <<N(1, 0)>>,
        !.incomeJPY = income ]

ZeroWeek(weekStart) ==
    [key \in DOMAIN createEmptyEntry(weekStart) |->
        IF key \in NumberKeys THEN <<0>> ELSE createEmptyEntry(weekStart)[key]]

Paid == <<N(250000, 0)>>

ShortWeeks ==
    { createEmptyEntry(W1),
      ZeroWeek(W2),
      TopWeek(W1, Paid),
      [TopWeek(W2, Paid) EXCEPT !.deepWorkH = <<N(6, 0)>>, !.playH = <<N(2, 0)>>,
                                !.avgStepsPerDay = <<N(4000, 0)>>],
      [TopWeek(W2, Paid) EXCEPT !.deepWorkH = <<N(6, 0)>>, !.playH = <<N(2, 0)>>,
                                !.avgStepsPerDay = <<N(4000, 0)>>,
                                !.emergencyFundMonths = <<N(6, 0)>>],
      MidWeek(W3, Paid),
      [MidWeek(W3, Paid) EXCEPT !.pipelineActionsPerWeek = <<N(0, 9)>>],
      [TopWeek(W2, Paid) EXCEPT !.manualRedFlag = TRUE],
      [TopWeek(W3, Paid) EXCEPT !.paymentRedFlag = TRUE],
      [TopWeek(W2, Paid) EXCEPT !.sleepScore = <<N(4, 0)>>],
      [TopWeek(W1, Paid) EXCEPT !.realContactsPerWeek = undefined] }

\* The eight scored metrics with the thresholds of their middle and top
\* tiers; alcoholDeviationPerWeek has the two values that score instead.
MetricKeys == NumberKeys \ {"incomeJPY"}

MiddleTier ==
    [ deepWorkH |-> N(6, 0), playH |-> N(2, 0), realContactsPerWeek |-> N(0, 5),
      sleepScore |-> N(5, 0), alcoholDeviationPerWeek |-> N(1, 0),
      avgStepsPerDay |-> N(4000, 0), emergencyFundMonths |-> N(6, 0),
      pipelineActionsPerWeek |-> N(1, 0) ]

TopTier ==
    [ deepWorkH |-> N(12, 0), playH |-> N(6, 0), realContactsPerWeek |-> N(1, 0),
      sleepScore |-> N(7, 0), alcoholDeviationPerWeek |-> N(0, 0),
      avgStepsPerDay |-> N(7000, 0), emergencyFundMonths |-> N(12, 0),
      pipelineActionsPerWeek |-> N(2, 0) ]

\* The values tried for every metric: absent, negative, and each threshold
\* of the table with its two neighbours a tenth away.
ProbeValues ==
    {undefined, <<N(-1, 0)>>}
    \cup {<<t + d>> : t \in {MiddleTier[k] : k \in MetricKeys} \cup
                           {TopTier[k] : k \in MetricKeys},
                      d \in {-1, 0, 1}}

\* One week: a blank, middle-tier or top-tier week with one metric replaced
\* and an income that is absent, zero or paid.
ScoreProbes ==
    { <<[base EXCEPT ![key] = value, !.incomeJPY = income]>> :
        base \in {createEmptyEntry(W1), MidWeek(W1, Paid), TopWeek(W1, Paid)},
        key \in MetricKeys,
        value \in ProbeValues,
        income \in {undefined, <<N(0, 0)>>, Paid} }

\* The incomes that count as no income: absent, zero and negative.
LowIncomes == {undefined, <<N(0, 0)>>, <<N(-1, 0)>>}

\* Weeks W1, W2, ... in order, top tier: week i has the income Paid when
\* paid[i], and the income low otherwise.
IncomeRun(low, paid) ==
    [i \in 1..Len(paid) |->
        TopWeek(WeekStrings[i + 1], IF paid[i] THEN Paid ELSE low)]

Reversed(es) == [i \in 1..Len(es) |-> es[Len(es) + 1 - i]]

\* The runs in ascending and in descending order, the short sequences in
\* every order, and the one-week score probes.
DeriveInputs ==
    {IncomeRun(low, paid) : low \in LowIncomes, paid \in SeqsUpTo(BOOLEAN, IncomeWeeks)}
    \cup {Reversed(IncomeRun(low, paid)) :
              low \in LowIncomes, paid \in SeqsUpTo(BOOLEAN, IncomeWeeks)}
    \cup SeqsUpTo(ShortWeeks, MaxWeeks)
    \cup ScoreProbes

InitDerive ==
    /\ input \in DeriveInputs
    /\ derived = NotCalled
    /\ streaks = ZeroStreaks
    /\ pinned = NothingPinned
    /\ IdleApp
    /\ IdleSanitizer

\* computeDerivedWeeks(input) is called and returns.
Derive ==
    /\ ~derived.called
    /\ derived' = Returned(computeDerivedWeeks(input))
    /\ streaks' = DeriveCall(input).streaks
    /\ UNCHANGED <<input, pinned, appVars, sanitizeVars>>

NextDerive == Derive

SpecDerive == InitDerive /\ [][NextDerive]_vars

-----------------------------------------------------------------------------
(* Properties of the derivation.                                           *)

EntriesOf(weeks) == [i \in 1..Len(weeks) |-> weeks[i].entry]

IsSortedByWeekStart(es) ==
    \A i \in 1..(Len(es) - 1) : Rank(es[i].weekStart) <= Rank(es[i + 1].weekStart)

Occurrences(es, e) == Cardinality({i \in 1..Len(es) : es[i] = e})

\* b holds the entries of a, each as often as a does.
SameEntries(a, b) ==
    /\ Len(a) = Len(b)
    /\ \A i \in 1..Len(a) : Occurrences(a, a[i]) = Occurrences(b, a[i])

\* The weeks returned are the entries of the input in sorted order.
WeeksInSortedOrder ==
    /\ SameEntries(input, EntriesOf(derived.weeks))
    /\ IsSortedByWeekStart(EntriesOf(derived.weeks))

IncomeLow(week) ==
    week.entry.incomeJPY = undefined \/ week.entry.incomeJPY[1] <= 0

\* Week i is the 8th or a later week of a run of weeks without income.
EighthOfIncomeRun(weeks, i) ==
    i >= 8 /\ \A k \in 0..7 : IncomeLow(weeks[i - k])

OthersAtTopTier(week) ==
    /\ week.entry.deepWorkH # undefined /\ week.entry.deepWorkH[1] >= 120
    /\ week.entry.playH # undefined /\ week.entry.playH[1] >= 60
    /\ week.entry.realContactsPerWeek # undefined /\ week.entry.realContactsPerWeek[1] >= 10
    /\ week.entry.sleepScore # undefined /\ week.entry.sleepScore[1] >= 70
    /\ week.entry.alcoholDeviationPerWeek = <<0>>
    /\ week.entry.avgStepsPerDay # undefined /\ week.entry.avgStepsPerDay[1] >= 70000
    /\ week.entry.emergencyFundMonths # undefined /\ week.entry.emergencyFundMonths[1] >= 120
    /\ week.entry.pipelineActionsPerWeek # undefined /\ week.entry.pipelineActionsPerWeek[1] >= 20

\* C2: autoFlags.noIncome of a week is true exactly when the week is the 8th
\* or a later week of a run of consecutive weeks, in sorted order, whose
\* income (absent read as 0) is <= 0; such a week whose other metrics are at
\* the top tier has totalScore 16, overallRedFlag true and grade C.
NoIncomeFlagFromEighthWeek ==
    derived.called =>
        /\ WeeksInSortedOrder
        /\ \A i \in 1..Len(derived.weeks) :
              LET week == derived.weeks[i]
              IN  /\ week.autoFlags.noIncome = EighthOfIncomeRun(derived.weeks, i)
                  /\ (EighthOfIncomeRun(derived.weeks, i) /\ OthersAtTopTier(week)) =>
                        /\ week.totalScore = 16
                        /\ week.overallRedFlag
                        /\ week.grade = "C"

\* Weeks 1 to 7 of a run are not flagged, week 8 is, and the week with an
\* income that follows ends the run.
NoIncomeFlagWitness ==
    /\ derived.called
    /\ Len(derived.weeks) = 9
    /\ \A i \in 1..8 : IncomeLow(derived.weeks[i])
    /\ \A i \in 1..7 : ~derived.weeks[i].autoFlags.noIncome
    /\ derived.weeks[8].autoFlags.noIncome
    /\ derived.weeks[8].totalScore = 16
    /\ derived.weeks[8].grade = "C"
    /\ ~IncomeLow(derived.weeks[9])
    /\ ~derived.weeks[9].autoFlags.noIncome

SleepLow(week) ==
    week.entry.sleepScore = undefined \/ week.entry.sleepScore[1] <= 40

\* C3: autoFlags.sleep of a week is true exactly when the week is the second
\* or a later week of a run of consecutive weeks, in sorted order, whose
\* sleepScore (absent read as 0) is <= 4.
SleepFlagFromSecondWeek ==
    derived.called =>
        /\ WeeksInSortedOrder
        /\ \A i \in 1..Len(derived.weeks) :
              derived.weeks[i].autoFlags.sleep =
                  (i >= 2 /\ SleepLow(derived.weeks[i]) /\ SleepLow(derived.weeks[i - 1]))

\* Two low weeks flag the second one; a single low week followed by a
\* recovery flags neither.
SleepFlagWitness ==
    /\ derived.called
    /\ Len(derived.weeks) = 3
    /\ derived.weeks[1].entry.sleepScore = <<40>>
    /\ SleepLow(derived.weeks[2])
    /\ ~derived.weeks[1].autoFlags.sleep
    /\ derived.weeks[2].autoFlags.sleep
    /\ ~SleepLow(derived.weeks[3])
    /\ ~derived.weeks[3].autoFlags.sleep

FlagRaised(week) ==
    \/ week.entry.manualRedFlag
    \/ week.entry.paymentRedFlag
    \/ week.autoFlags.sleep
    \/ week.autoFlags.contacts
    \/ week.autoFlags.noIncome

\* C4: overallRedFlag is the disjunction of the five flags, and the grade is
\* A iff totalScore >= 13 and no flag is raised, B iff 8 <= totalScore < 13
\* and no flag is raised, and C otherwise.
GradeFromScoreAndFlags ==
    derived.called =>
        \A i \in 1..Len(derived.weeks) :
            LET week == derived.weeks[i]
            IN  /\ week.overallRedFlag = FlagRaised(week)
                /\ week.grade \in {"A", "B", "C"}
                /\ (week.grade = "A") = (week.totalScore >= 13 /\ ~FlagRaised(week))
                /\ (week.grade = "B") =
                      (week.totalScore >= 8 /\ week.totalScore < 13 /\ ~FlagRaised(week))

\* One result holds a week graded A at 13, a week graded B at 12 and a week
\* of score 16 that a manual flag grades C.
GradeWitness ==
    /\ derived.called
    /\ \E i, j, k \in 1..Len(derived.weeks) :
          /\ derived.weeks[i].totalScore = 13 /\ derived.weeks[i].grade = "A"
          /\ derived.weeks[j].totalScore = 12 /\ derived.weeks[j].grade = "B"
          /\ derived.weeks[k].totalScore = 16 /\ derived.weeks[k].entry.manualRedFlag
          /\ derived.weeks[k].grade = "C"

\* The computed fields of the weeks.
ComputedOf(weeks) ==
    [i \in 1..Len(weeks) |->
        [ totalScore |-> weeks[i].totalScore, grade |-> weeks[i].grade,
          autoFlags |-> weeks[i].autoFlags, overallRedFlag |-> weeks[i].overallRedFlag ]]

\* Field key of entry i turned from absent to 0, or from 0 to absent.
AbsentZeroSwapped(es, i, key) ==
    [es EXCEPT ![i][key] = IF es[i][key] = undefined THEN <<0>> ELSE undefined]

\* C7: replacing an absent numeric field of an entry by 0, or a 0 by absent,
\* leaves totalScore, grade, autoFlags and overallRedFlag of every week
\* unchanged.
AbsentScoresAsZero ==
    derived.called =>
        \A i \in 1..Len(input), key \in NumberKeys :
            input[i][key] \in {undefined, <<0>>} =>
                ComputedOf(computeDerivedWeeks(AbsentZeroSwapped(input, i, key)))
                    = ComputedOf(derived.weeks)

\* An empty week and a week of explicit zeros in one input: the second is
\* flagged for sleep and for contacts.
AbsentScoresAsZeroWitness ==
    /\ derived.called
    /\ Len(input) = 2
    /\ \A key \in NumberKeys : input[1][key] = undefined /\ input[2][key] = <<0>>
    /\ derived.weeks[2].autoFlags.sleep
    /\ derived.weeks[2].autoFlags.contacts
    /\ derived.weeks[1].totalScore = 2

-----------------------------------------------------------------------------
(* The repeated-call specification: calls of computeDerivedWeeks one after *)
(* the other, an earlier call being kept to compare a later one with.      *)

\* The longest sequence built from RecallWeeks.
MaxRecallLen == 2

RecallWeeks ==
    { createEmptyEntry(W1),
      TopWeek(W2, Paid),
      [TopWeek(W2, Paid) EXCEPT !.sleepScore = <<N(4, 0)>>] }

RecallInputs == SeqsUpTo(RecallWeeks, MaxRecallLen)

Pinned(es, weeks, other) ==
    [set |-> TRUE, input |-> es, derived |-> weeks, other |-> other]

InitRecall ==
    /\ input = <<>>
    /\ derived = NotCalled
    /\ streaks = ZeroStreaks
    /\ pinned = NothingPinned
    /\ IdleApp
    /\ IdleSanitizer

\* computeDerivedWeeks(es) is called and returns.
Call ==
    /\ \E es \in RecallInputs :
          /\ input' = es
          /\ derived' = Returned(computeDerivedWeeks(es))
          /\ streaks' = DeriveCall(es).streaks
          /\ pinned' = IF pinned.set /\ es # pinned.input
                       THEN Pinned(pinned.input, pinned.derived, TRUE)
                       ELSE pinned
    /\ UNCHANGED <<appVars, sanitizeVars>>

\* The call that has just returned is kept.
Pin ==
    /\ derived.called
    /\ pinned' = Pinned(input, derived.weeks, FALSE)
    /\ UNCHANGED <<input, derived, streaks, appVars, sanitizeVars>>

NextRecall == Call \/ Pin

SpecRecall == InitRecall /\ [][NextRecall]_vars

\* C8: a call of computeDerivedWeeks returns what an earlier call with the
\* same input returned, whatever was derived in between, and the weeks of an
\* input that is already sorted come back in the order of the input.
DerivationKeepsNoState ==
    /\ (derived.called /\ pinned.set /\ pinned.input = input) =>
          derived.weeks = pinned.derived
    /\ (derived.called /\ IsSortedByWeekStart(input)) =>
          EntriesOf(derived.weeks) = input

\* A kept call, a call with another input, and the kept input derived again:
\* two weeks of the same weekStart, the second one flagged for sleep.
DerivationKeepsNoStateWitness ==
    /\ derived.called
    /\ pinned.set
    /\ pinned.other
    /\ pinned.input = input
    /\ Len(input) = 2
    /\ input[1].weekStart = input[2].weekStart
    /\ input[1] # input[2]
    /\ streaks.sleepStreak = 1

-----------------------------------------------------------------------------
(* Properties of the sanitizer.                                            *)

\* A record with a string-typed weekStart.
IsWeekRecord(item) == item.t = "object" /\ item.v.weekStart.t = "string"

\* C6: parseStoredEntries returns null when its input is not an array and
\* when one element is not a record with a string weekStart, whatever the
\* other elements are; it returns a sequence only when every element is
\* accepted, with one entry for each element.
AllOrNothing ==
    parsed # <<>> =>
        /\ raw.t # "array" => parsed[1] = Rejected
        /\ (raw.t = "array" /\ \E i \in 1..Len(raw.v) : ~IsWeekRecord(raw.v[i])) =>
              parsed[1] = Rejected
        /\ parsed[1].ok =>
              /\ raw.t = "array"
              /\ \A i \in 1..Len(raw.v) : IsWeekRecord(raw.v[i])
              /\ Len(parsed[1].entries) = Len(raw.v)

\* An array whose first element is a valid week and whose second element
\* has no weekStart has been rejected.
AllOrNothingWitness ==
    /\ parsed = <<Rejected>>
    /\ raw.t = "array"
    /\ Len(raw.v) = 2
    /\ IsWeekRecord(raw.v[1])
    /\ raw.v[2].t = "object"
    /\ raw.v[2].v.weekStart = Undefined

BooleanKeys == {"manualRedFlag", "paymentRedFlag"}

UpperOf ==
    ("a" :> "A") @@ ("e" :> "E") @@ ("f" :> "F") @@ ("l" :> "L") @@
    ("r" :> "R") @@ ("s" :> "S") @@ ("t" :> "T") @@ ("u" :> "U")

\* s is word, ignoring case.
EqualsIgnoringCase(s, word) ==
    /\ Len(s) = Len(word)
    /\ \A i \in 1..Len(word) : s[i] = word[i] \/ s[i] = UpperOf[word[i]]

\* s is word, ignoring case and the white space around it.
EqualsTrimmedIgnoringCase(s, word) ==
    \E a, b \in 1..Len(s) :
        /\ \A i \in 1..Len(s) : (i < a \/ i > b) => s[i] = " "
        /\ EqualsIgnoringCase(SubSeq(s, a, b), word)

TrueWord == <<"t", "r", "u", "e">>
FalseWord == <<"f", "a", "l", "s", "e">>

\* The coercion as the claim words it: the string is compared as it is.
CoercedAsWritten(v) ==
    IF v.t = "boolean" THEN v.v
    ELSE IF v.t = "string" /\ EqualsIgnoringCase(v.v, TrueWord) THEN TRUE
    ELSE IF v.t = "string" /\ EqualsIgnoringCase(v.v, FalseWord) THEN FALSE
    ELSE Truthy(v)

\* The coercion with the string compared after trimming.
CoercedTrimmed(v) ==
    IF v.t = "boolean" THEN v.v
    ELSE IF v.t = "string" /\ EqualsTrimmedIgnoringCase(v.v, TrueWord) THEN TRUE
    ELSE IF v.t = "string" /\ EqualsTrimmedIgnoringCase(v.v, FalseWord) THEN FALSE
    ELSE Truthy(v)

\* C9, as the claim states it: a boolean is returned as is, a string equal,
\* ignoring case, to "true" or "false" gives that boolean, and every other
\* value gives its truthiness.  (Every accepted element has an entry of its
\* weekStart whose two flags are the coercion of the element's flag values.)
BooleanCoercionAsWritten ==
    (parsed # <<>> /\ parsed[1].ok) =>
        \A i \in 1..Len(raw.v) :
            \E j \in 1..Len(parsed[1].entries) :
                /\ parsed[1].entries[j].weekStart = raw.v[i].v.weekStart.v
                /\ \A key \in BooleanKeys :
                      parsed[1].entries[j][key] = CoercedAsWritten(raw.v[i].v[key])

\* C9, amended: a boolean is returned as is, a string equal to "true" or
\* "false" once its white space is trimmed and case is ignored gives that
\* boolean, and every other value gives its truthiness.
BooleanCoercionTrimmed ==
    (parsed # <<>> /\ parsed[1].ok) =>
        \A i \in 1..Len(raw.v) :
            \E j \in 1..Len(parsed[1].entries) :
                /\ parsed[1].entries[j].weekStart = raw.v[i].v.weekStart.v
                /\ \A key \in BooleanKeys :
                      parsed[1].entries[j][key] = CoercedTrimmed(raw.v[i].v[key])

\* The string " false", which is truthy, has been coerced to false.
BooleanCoercionWitness ==
    /\ parsed # <<>>
    /\ parsed[1].ok
    /\ Len(raw.v) = 1
    /\ raw.v[1].v.manualRedFlag = Str(<<" ", "f", "a", "l", "s", "e">>)
    /\ parsed[1].entries[1].manualRedFlag = FALSE

-----------------------------------------------------------------------------
(* Copy previous week.                                                     *)

\* b is the date one week after the date a.
OneWeekAfter(a, b) == IsValidDate(a) /\ IsValidDate(b) /\ Rank(b) = Rank(a) + 1

GreatestWeekStart(es, i) ==
    \A j \in 1..Len(es) : localeCompare(es[j].weekStart, es[i].weekStart) <= 0

\* after is before with one entry more at the end, a copy of an entry of
\* the greatest weekStart: its nine numbers, no flag, no notes, a week later.
CopiedLastWeek(before, after) ==
    /\ Len(after) = Len(before) + 1
    /\ \A i \in 1..Len(before) : after[i] = before[i]
    /\ \E i \in 1..Len(before) :
          /\ GreatestWeekStart(before, i)
          /\ \A key \in NumberKeys : LastOf(after)[key] = before[i][key]
          /\ OneWeekAfter(before[i].weekStart, LastOf(after).weekStart)
    /\ LastOf(after).manualRedFlag = FALSE
    /\ LastOf(after).paymentRedFlag = FALSE
    /\ LastOf(after).notes = <<>>

\* C11: copy previous week on a non-empty collection adds exactly one entry,
\* leaves the existing entries as they are, and the new entry is the last
\* one: the nine numbers of the entry of the greatest weekStart, both flags
\* false, notes empty, weekStart one week later.
CopyAddsNextWeek ==
    [][(CopyPrevious /\ entries # <<>>) => CopiedLastWeek(entries, entries')]_vars

-----------------------------------------------------------------------------
(* The total score.                                                        *)

\* The sub-score the scoring table gives a metric value.
TableScore(key, value) ==
    IF key = "alcoholDeviationPerWeek"
    THEN (IF value = TopTier[key] THEN 2 ELSE IF value = MiddleTier[key] THEN 1 ELSE 0)
    ELSE (IF value >= TopTier[key] THEN 2 ELSE IF value >= MiddleTier[key] THEN 1 ELSE 0)

\* The sub-scores of an entry, an absent metric read as 0.
SubScores(entry) ==
    [key \in MetricKeys |->
        TableScore(key, IF entry[key] = undefined THEN 0 ELSE entry[key][1])]

TableTotal(entry) ==
    LET sub == SubScores(entry)
    IN  sub["deepWorkH"] + sub["playH"] + sub["realContactsPerWeek"]
        + sub["sleepScore"] + sub["alcoholDeviationPerWeek"] + sub["avgStepsPerDay"]
        + sub["emergencyFundMonths"] + sub["pipelineActionsPerWeek"]

\* The week again with another income.
WithIncome(entry, income) == [entry EXCEPT !.incomeJPY = income]

\* C12: the totalScore of every derived week is the sum of the eight
\* sub-scores of the scoring table on its metric values, absent read as 0 and
\* thresholds inclusive; every sub-score is 0, 1 or 2, the total is an integer
\* of 0..16, and it is the total of the same week with any other income.
TotalScoreFromTable ==
    derived.called =>
        \A i \in 1..Len(derived.weeks) :
            LET week == derived.weeks[i]
            IN  /\ week.totalScore = TableTotal(week.entry)
                /\ \A key \in MetricKeys : SubScores(week.entry)[key] \in {0, 1, 2}
                /\ week.totalScore \in 0..16
                /\ \A income \in {undefined, <<N(0, 0)>>, <<N(-1, 0)>>, Paid} :
                      totalScoreOf(WithIncome(week.entry, income)) = week.totalScore

\* A week with deep work exactly at the middle threshold, alcohol deviation
\* absent and nothing else recorded scores 1 + 2, with and without income.
TotalScoreWitness ==
    /\ derived.called
    /\ Len(derived.weeks) = 1
    /\ derived.weeks[1].entry =
          [createEmptyEntry(W1) EXCEPT !.deepWorkH = <<N(6, 0)>>, !.incomeJPY = Paid]
    /\ derived.weeks[1].totalScore = 3

-----------------------------------------------------------------------------
(* The round-trip specification: entries are exported, and the file is     *)
(* parsed and handed to parseStoredEntries.                                *)

\* The longest exported sequence.
MaxExportLen == 3

\* handleExport: the text of the downloaded file.  (The indentation asked of
\* JSON.stringify changes the text, not the value read back.)
handleExport(es) == JSONstringify(sortEntries(es))

\* Valid entries: a blank week without a date, a week of zeros, full weeks
\* with flags and notes, notes that read like a boolean or a number, a
\* negative income, and two different weeks of the same weekStart.
ExportWeeks ==
    { createEmptyEntry(""),
      ZeroWeek(W2),
      [TopWeek(W1, Paid) EXCEPT !.manualRedFlag = TRUE, !.paymentRedFlag = TRUE,
                                !.notes = <<"o", "k">>],
      [MidWeek(W3, <<N(-1, 0)>>) EXCEPT !.manualRedFlag = TRUE,
                                        !.notes = <<" ", "1", " ">>],
      [createEmptyEntry(W1) EXCEPT !.paymentRedFlag = TRUE,
                                   !.notes = <<"t", "r", "u", "e">>],
      [TopWeek(W2, undefined) EXCEPT !.sleepScore = undefined] }

ExportInputs == SeqsUpTo(ExportWeeks, MaxExportLen)

InitRoundTrip ==
    /\ input \in ExportInputs
    /\ raw = Undefined
    /\ parsed = <<>>
    /\ derived = NotCalled
    /\ streaks = ZeroStreaks
    /\ pinned = NothingPinned
    /\ IdleApp

\* The entries are exported and JSON.parse reads the file.
Export ==
    /\ raw = Undefined
    /\ LET p == JSONparse(handleExport(input))
       IN  ~p.threw /\ raw' = p.value
    /\ UNCHANGED <<parsed, appVars, deriveVars>>

\* parseStoredEntries is called on what was read.
ParseExported ==
    /\ raw # Undefined
    /\ Parse

NextRoundTrip == Export \/ ParseExported

SpecRoundTrip == InitRoundTrip /\ [][NextRoundTrip]_vars

\* C13: the export of a valid entry sequence, parsed, is accepted by
\* parseStoredEntries, which returns the original sequence sorted by
\* weekStart: every present field kept, every absent number still absent.
ExportRoundTrip ==
    parsed # <<>> =>
        /\ parsed[1].ok
        /\ parsed[1].entries = sortEntries(input)
        /\ Len(parsed[1].entries) = Len(input)
        /\ \A e \in ExportWeeks :
              Occurrences(parsed[1].entries, e) = Occurrences(input, e)

\* Three weeks exported out of order, two of them of the same weekStart, with
\* zeros and absent numbers, have come back in order and as they were.
ExportRoundTripWitness ==
    /\ input = << ZeroWeek(W2),
                  [createEmptyEntry(W1) EXCEPT !.paymentRedFlag = TRUE,
                                               !.notes = <<"t", "r", "u", "e">>],
                  createEmptyEntry("") >>
    /\ parsed # <<>>
    /\ parsed[1].ok
    /\ parsed[1].entries[1] = createEmptyEntry("")
    /\ parsed[1].entries[2].notes = <<"t", "r", "u", "e">>
    /\ parsed[1].entries[2].deepWorkH = undefined
    /\ parsed[1].entries[3].deepWorkH = <<0>>

-----------------------------------------------------------------------------
(* Import.                                                                 *)

\* The content of the file cannot be parsed, or parseStoredEntries rejects
\* what was parsed.
ImportFails(text) ==
    \/ JSONparse(text).threw
    \/ parseStoredEntries(JSONparse(text).value) = Rejected

\* C14: in every reachable state, whichever file is imported: a file that
\* cannot be parsed or is rejected leaves the working collection exactly as
\* it was and sets the import error; an accepted file replaces the collection
\* by the sanitized sequence and clears the error.
FailedImportKeepsEntries ==
    \A text \in ImportFiles :
        LET done == handleImport(entries, text)
        IN  IF ImportFails(text)
            THEN done.entries = entries /\ done.importError = ImportFailed
            ELSE /\ done.entries = parseStoredEntries(JSONparse(text).value).entries
                 /\ done.importError = NoError

\* After edits (a second week with the income -1 typed in, which no file
\* holds together with a blank first week) an import has failed and the
\* collection is still there.
FailedImportWitness ==
    /\ importError = ImportFailed
    /\ Len(entries) = 2
    /\ entries[1] = createEmptyEntry("2024-01-08")
    /\ entries[2].incomeJPY = <<N(-1, 0)>>

-----------------------------------------------------------------------------
(* The rows of the table.                                                  *)

\* The table shows computeDerivedWeeks(entries), one row per derived week.
Rows == EntriesOf(computeDerivedWeeks(entries))

Without(s, i) == [j \in 1..(Len(s) - 1) |-> IF j < i THEN s[j] ELSE s[j + 1]]

\* C15: row i of the derived view is derived from entries[i], also when
\* several entries share a weekStart, so the delete button of row i removes
\* the entry shown in that row and an edit in row i changes that entry and
\* no other.
RowsMatchEntries ==
    /\ Len(Rows) = Len(entries)
    /\ \A i \in 1..Len(entries) :
          /\ Rows[i] = entries[i]
          /\ Len(entries) > 1 => handleDeleteEntry(entries, i) = Without(Rows, i)
          /\ \A flag \in BOOLEAN :
                SameEntries(handleEntryChange(entries, i, "manualRedFlag", flag),
                            [Rows EXCEPT ![i].manualRedFlag = flag])

\* Two different entries share the weekStart 2024-01-01: the imported week
\* with its red flag and a negative income, and after it a week moved there.
RowsMatchEntriesWitness ==
    /\ Len(entries) = 2
    /\ entries[1].weekStart = "2024-01-01"
    /\ entries[2].weekStart = "2024-01-01"
    /\ entries[1].manualRedFlag
    /\ entries[2].deepWorkH = <<N(12, 5)>>

====
